---- MODULE Spec2Model ----
(***************************************************************************)
(* Model of the my-ebita service layer: the two AI provider clients        *)
(* (services/chatgpt_service.py, services/gemini_service.py), the         *)
(* transcript source (services/ninjas_service.py) and the data access      *)
(* layer (data/data_manager.py over data/data_models.py).                  *)
(***************************************************************************)
EXTENDS Integers, Sequences, FiniteSets, TLC

(***************************************************************************)
(* Python values.  A value is a record [t, v]: None, a str (a sequence of  *)
(* characters) or a decoded JSON object.                                   *)
(***************************************************************************)
PyNone == [t |-> "none", v |-> <<>>]

Str(s) == [t |-> "str", v |-> s]

PyDict(s) == [t |-> "dict", v |-> s]

\* `not x` for None and for a str
Falsy(x) == x.t = "none" \/ (x.t = "str" /\ x.v = <<>>)

\* str(x) inside an f-string
Format(x) == IF x.t = "none" THEN <<"N", "o", "n", "e">> ELSE x.v

(***************************************************************************)
(* Messages built by f-strings: a sequence of parts, each a literal of the *)
(* source or an interpolated value.                                        *)
(***************************************************************************)
Lit(s) == [lit |-> s, val |-> <<>>]

Val(s) == [lit |-> "", val |-> s]

Num(n) == [lit |-> "", val |-> <<ToString(n)>>]

(***************************************************************************)
(* Exceptions and the class hierarchy the except clauses dispatch on.      *)
(***************************************************************************)
Exc(type, msg) == [type |-> type, msg |-> msg]

Bases(type) ==
    CASE type = "ConnectTimeout" -> {"ConnectionError", "Timeout"}
      [] type = "ReadTimeout" -> {"Timeout"}
      [] type = "ConnectionError" -> {"RequestException"}
      [] type = "Timeout" -> {"RequestException"}
      [] type = "HTTPError" -> {"RequestException"}
      [] type = "RequestsJSONDecodeError" -> {"InvalidJSONError", "JSONDecodeError"}
      [] type = "InvalidJSONError" -> {"RequestException"}
      [] type = "RequestException" -> {"OSError"}
      [] type = "OSError" -> {"Exception"}
      [] type = "JSONDecodeError" -> {"ValueError"}
      [] type = "ValueError" -> {"Exception"}
      [] type = "KeyError" -> {"LookupError"}
      [] type = "IndexError" -> {"LookupError"}
      [] type = "LookupError" -> {"Exception"}
      [] type = "TypeError" -> {"Exception"}
      [] type = "UnboundLocalError" -> {"NameError"}
      [] type = "NameError" -> {"Exception"}
      [] type = "APITimeoutError" -> {"APIConnectionError"}
      [] type = "APIConnectionError" -> {"APIError"}
      [] type = "APIStatusError" -> {"APIError"}
      [] type = "APIError" -> {"OpenAIError"}
      [] type = "OpenAIError" -> {"Exception"}
      [] OTHER -> {}

RECURSIVE IsInstance(_, _)
IsInstance(type, class) ==
    \/ type = class
    \/ \E b \in Bases(type) : IsInstance(b, class)

\* index of the first except clause that catches `type`, 0 when none does
RECURSIVE FirstMatchFrom(_, _, _)
FirstMatchFrom(clauses, type, i) ==
    IF i > Len(clauses) THEN 0
    ELSE IF IsInstance(type, clauses[i]) THEN i
    ELSE FirstMatchFrom(clauses, type, i + 1)

CaughtBy(clauses, type) ==
    LET i == FirstMatchFrom(clauses, type, 1)
    IN IF i = 0 THEN "uncaught" ELSE clauses[i]

\* what a call ends with: a returned value or a raised exception
Return(v) == [tag |-> "return", value |-> v]

Raise(e) == [tag |-> "raise", value |-> e]

(***************************************************************************)
(* json.loads on the texts of the model: the JSON object "{}" decodes,     *)
(* every other text of the model raises JSONDecodeError.                   *)
(***************************************************************************)
JsonObjectText == <<"{", "}">>

FreeText == <<"h", "i">>

HtmlBody == <<"<", ">">>

JsonDecodes(s) == s = JsonObjectText

\* the value json.loads returns for a text that decodes ("{}": the empty object)
JsonLoads(s) == PyDict(<<>>)

(***************************************************************************)
(* What the remote end does with one request.                              *)
(*   conn_error      the connection cannot be established                  *)
(*   connect_timeout the connection attempt times out                      *)
(*   read_timeout    the response does not arrive within the timeout       *)
(*   http_error      a non-2xx status, with a JSON or a non-JSON body      *)
(*   ok_undecodable  a 2xx status whose body is not JSON                   *)
(*   ok_no_text      a 2xx JSON body without the expected text field       *)
(*   ok              a 2xx JSON body carrying the model output `content`   *)
(***************************************************************************)
Behaviour(kind, status, body, content) ==
    [kind |-> kind, status |-> status, body |-> body, content |-> content]

HttpErrorStatuses == {401, 403, 429, 500}

ModelOutputs == {Str(JsonObjectText), Str(FreeText), Str(<<>>), PyNone}

RemoteBehaviours ==
    {Behaviour(k, 0, <<>>, PyNone) : k \in {"conn_error", "connect_timeout", "read_timeout"}}
    \cup {Behaviour("http_error", s, b, PyNone) :
            s \in HttpErrorStatuses, b \in {JsonObjectText, HtmlBody}}
    \cup {Behaviour("ok_undecodable", 200, HtmlBody, PyNone),
          Behaviour("ok_no_text", 200, JsonObjectText, PyNone)}
    \cup {Behaviour("ok", 200, JsonObjectText, c) : c \in ModelOutputs}

NoBehaviour == Behaviour("none", 0, <<>>, PyNone)

\* str(e) of an exception raised by a library: fixed by the exception type
LibMsg(type) == <<Lit(type)>>

(***************************************************************************)
(* GeminiService (services/gemini_service.py)                              *)
(***************************************************************************)
\* requests raises its own JSONDecodeError (a RequestException) from 2.27 on,
\* json.JSONDecodeError before: the source pins no version
RequestsVersions == {"requests>=2.27", "requests<2.27"}

JsonErrorType(lib) ==
    IF lib = "requests>=2.27" THEN "RequestsJSONDecodeError" ELSE "JSONDecodeError"

\* the try body of _make_request: requests.post, raise_for_status, response.json
GeminiPost(b, lib) ==
    CASE b.kind = "conn_error" -> Raise(Exc("ConnectionError", LibMsg("ConnectionError")))
      [] b.kind = "connect_timeout" -> Raise(Exc("ConnectTimeout", LibMsg("ConnectTimeout")))
      [] b.kind = "read_timeout" -> Raise(Exc("ReadTimeout", LibMsg("ReadTimeout")))
      [] b.kind = "http_error" -> Raise(Exc("HTTPError", LibMsg("HTTPError")))
      [] b.kind = "ok_undecodable" ->
            Raise(Exc(JsonErrorType(lib), LibMsg("JSONDecodeError")))
      [] OTHER -> Return([hasText |-> b.kind = "ok", text |-> b.content])

GeminiRequestClauses ==
    <<"HTTPError", "ConnectionError", "Timeout", "RequestException",
      "JSONDecodeError", "Exception">>

\* the except clauses of _make_request, applied to the exception e of the try body
GeminiRequestHandler(b, lib, e) ==
    LET clause == CaughtBy(GeminiRequestClauses, e.type)
    IN CASE clause = "HTTPError" ->
              \* print(json.dumps(e.response.json())) runs before the raise
              IF JsonDecodes(b.body)
              THEN Raise(Exc("ValueError",
                         <<Lit("Gemini API returned an HTTP error "), Num(b.status),
                           Lit(": "), Val(b.body)>>))
              ELSE Raise(Exc(JsonErrorType(lib), LibMsg("JSONDecodeError")))
         [] clause = "ConnectionError" ->
              Raise(Exc("RequestException",
                        <<Lit("Network connection error to Gemini API: ")>> \o e.msg))
         [] clause = "Timeout" ->
              Raise(Exc("RequestException",
                        <<Lit("Gemini API request timed out: ")>> \o e.msg))
         [] clause = "RequestException" ->
              Raise(Exc("RequestException",
                        <<Lit("An unexpected request error occurred: ")>> \o e.msg))
         [] clause = "JSONDecodeError" ->
              Raise(Exc("ValueError",
                        <<Lit("Failed to decode JSON from Gemini API response: ")>> \o e.msg
                        \o <<Lit(". Response: "), Val(b.body)>>))
         [] clause = "Exception" ->
              Raise(Exc("Exception",
                        <<Lit("An unknown error occurred during API call: ")>> \o e.msg))
         [] OTHER -> Raise(e)

GeminiMakeRequest(b, lib) ==
    LET r == GeminiPost(b, lib)
    IN IF r.tag = "return" THEN r ELSE GeminiRequestHandler(b, lib, r.value)

GeminiGenerateContent(b, lib) ==
    LET r == GeminiMakeRequest(b, lib)
    IN IF r.tag = "raise" THEN r
       ELSE IF r.value.hasText THEN Return(r.value.text)
       ELSE Raise(Exc("ValueError",
                      <<Lit("Unexpected response format from Gemini API. Could not extract text. Error: "),
                        Lit("KeyError"), Lit(". Full response: "), Val(b.body)>>))

GeminiAnalyzeClauses == <<"ValueError", "RequestException", "Exception">>

\* analyze_transcript once the response (or the transport failure) b is in
GeminiAnalyzeTranscript(model, b, lib) ==
    LET r == GeminiGenerateContent(b, lib)
    IN IF r.tag = "return"
       THEN Return([analysis |-> r.value, model_used |-> model, success |-> TRUE])
       ELSE IF CaughtBy(GeminiAnalyzeClauses, r.value.type) # "uncaught"
       THEN Return([error |-> <<Lit("Failed to get analysis from Gemini: ")>> \o r.value.msg,
                    success |-> FALSE])
       ELSE r

\* analyze_transcript has no guard on its arguments: the request is always sent
GeminiSendsRequest(text, prompt) == TRUE

(***************************************************************************)
(* ChatGPTService (services/chatgpt_service.py)                            *)
(***************************************************************************)
ExcerptLen == 200

\* analysis_content[:200]
Excerpt(s) == SubSeq(s, 1, IF Len(s) < ExcerptLen THEN Len(s) ELSE ExcerptLen)

\* the client is built as OpenAI(api_key=...): the SDK keeps its default of two
\* automatic retries of a request that ends in a connection error, a timeout,
\* or a 408, 409, 429 or 5xx status
SdkMaxRetries == 2

SdkRetries(b) ==
    \/ b.kind \in {"conn_error", "connect_timeout", "read_timeout"}
    \/ b.kind = "http_error" /\ (b.status \in {408, 409, 429} \/ b.status >= 500)

\* the requests the SDK may have re-sent before the outcome b of create() is final:
\* a retried failure surfaces only once the retries are used up
SdkResends(b) == IF SdkRetries(b) THEN {SdkMaxRetries} ELSE 0 .. SdkMaxRetries

\* self.client.chat.completions.create(...)
SdkCreate(b) ==
    CASE b.kind = "conn_error" ->
            Raise(Exc("APIConnectionError", LibMsg("APIConnectionError")))
      [] b.kind \in {"connect_timeout", "read_timeout"} ->
            Raise(Exc("APITimeoutError", LibMsg("APITimeoutError")))
      [] b.kind = "http_error" ->
            Raise(Exc("APIStatusError",
                      <<Lit("Error code: "), Num(b.status), Lit(" - "), Val(b.body)>>))
      [] b.kind = "ok_undecodable" ->
            \* the SDK decodes the body with response.json()
            Raise(Exc("JSONDecodeError", LibMsg("JSONDecodeError")))
      [] OTHER -> Return([hasChoice |-> b.kind = "ok", content |-> b.content])

\* the try body of analyze_transcript; `bound` tells whether analysis_content
\* was assigned before the body ended
ChatGPTTryBody(model, b) ==
    LET r == SdkCreate(b)
    IN IF r.tag = "raise"
       THEN [out |-> r, bound |-> FALSE, content |-> PyNone]
       ELSE IF ~r.value.hasChoice
       THEN [out |-> Raise(Exc("IndexError", LibMsg("IndexError"))),
             bound |-> FALSE, content |-> PyNone]
       ELSE LET analysis_content == r.value.content
            IN IF analysis_content.t = "none"
               THEN [out |-> Raise(Exc("TypeError", LibMsg("TypeError"))),
                     bound |-> TRUE, content |-> analysis_content]
               ELSE IF ~JsonDecodes(analysis_content.v)
               THEN [out |-> Raise(Exc("JSONDecodeError", LibMsg("JSONDecodeError"))),
                     bound |-> TRUE, content |-> analysis_content]
               ELSE [out |-> Return([analysis |-> JsonLoads(analysis_content.v),
                                     model_used |-> model, success |-> TRUE]),
                     bound |-> TRUE, content |-> analysis_content]

\* the catch-all clause written first
ChatGPTClausesBroadFirst == <<"Exception", "JSONDecodeError", "OpenAIError">>

ChatGPTClauses == <<"JSONDecodeError", "OpenAIError", "Exception">>

\* the except clauses of analyze_transcript
ChatGPTHandler(body) ==
    LET e == body.out.value
        clause == CaughtBy(ChatGPTClauses, e.type)
    IN CASE clause = "JSONDecodeError" ->
              \* the handler reads analysis_content
              IF body.bound
              THEN Return([error |-> <<Lit("Failed to parse AI response as JSON (critical): ")>>
                                     \o e.msg
                                     \o <<Lit(". Raw: "), Val(Excerpt(body.content.v)), Lit("...")>>,
                           success |-> FALSE])
              ELSE Raise(Exc("UnboundLocalError", LibMsg("UnboundLocalError")))
         [] clause = "OpenAIError" ->
              Return([error |-> <<Lit("Failed to get analysis from ChatGPT: ")>> \o e.msg,
                      success |-> FALSE])
         [] clause = "Exception" ->
              Return([error |-> <<Lit("An unexpected error occurred: ")>> \o e.msg,
                      success |-> FALSE])
         [] OTHER -> body.out

\* analyze_transcript once the outcome b of the SDK call is in
ChatGPTAnalyzeTranscript(model, b) ==
    LET body == ChatGPTTryBody(model, b)
    IN IF body.out.tag = "return" THEN body.out ELSE ChatGPTHandler(body)

\* the guard of analyze_transcript: only the transcript text is tested
ChatGPTSendsRequest(text, prompt) == ~Falsy(text)

ChatGPTRejection ==
    Return([error |-> <<Lit("Transcript text cannot be empty for analysis.")>>,
            success |-> FALSE])

(***************************************************************************)
(* NinjasService (services/ninjas_service.py)                              *)
(***************************************************************************)
MinQuarter == 1

MaxQuarter == 4

MinYear == 1990

MaxYear == 2100

\* a validation that excludes the first quarter
ValidationErrorOffByOne(year, quarter) ==
    IF ~(MinQuarter < quarter /\ quarter <= MaxQuarter)
    THEN <<Lit("Quarter must be between 1 and 4.")>>
    ELSE IF ~(MinYear <= year /\ year <= MaxYear)
    THEN <<Lit("Year seems a bit off. Please provide a realistic year.")>>
    ELSE <<>>

\* the two checks that open get_earnings_transcript: the message of the
\* ValueError raised, <<>> when the arguments pass
ValidationError(year, quarter) ==
    IF ~(MinQuarter <= quarter /\ quarter <= MaxQuarter)
    THEN <<Lit("Quarter must be between 1 and 4.")>>
    ELSE IF ~(MinYear <= year /\ year <= MaxYear)
    THEN <<Lit("Year seems a bit off. Please provide a realistic year.")>>
    ELSE <<>>

\* ticker.upper() on the tickers of the model
Upper(ticker) ==
    [i \in DOMAIN ticker |->
        CASE ticker[i] = "m" -> "M"
          [] ticker[i] = "s" -> "S"
          [] OTHER -> ticker[i]]

\* The decoded body of a 2xx response, by its top-level shape:
\*   empty_list   []
\*   list         [record, ...]
\*   dict         record
\*   scalar       a JSON number, string or null
\* and the record's fields; a field the record lacks is None, as .get() gives.
TranscriptRecord(date, transcript, split) ==
    [date |-> date, transcript |-> transcript, transcript_split |-> split]

NoRecord == TranscriptRecord(PyNone, PyNone, PyNone)

TranscriptRecords ==
    {TranscriptRecord(Str(<<"d">>), Str(<<"t">>), Str(<<"s">>)),
     TranscriptRecord(Str(<<"d">>), Str(<<"t">>), PyNone),
     TranscriptRecord(Str(<<"d">>), Str(<<>>), PyNone),
     TranscriptRecord(Str(<<"d">>), Str(<<" ">>), PyNone),
     TranscriptRecord(Str(<<"d">>), PyNone, PyNone)}

\* a list element that is a JSON string, not an object
ScalarElements == {Str(<<>>), Str(<<"x">>)}

IsDict(v) == "t" \notin DOMAIN v

NinjaBehaviour(kind, status, body, shape, record) ==
    [kind |-> kind, status |-> status, body |-> body, shape |-> shape, record |-> record]

NinjaBehaviours ==
    {NinjaBehaviour(k, 0, <<>>, "", NoRecord) :
        k \in {"conn_error", "connect_timeout", "read_timeout"}}
    \cup {NinjaBehaviour("http_error", st, b, "", NoRecord) :
            st \in {400, 500}, b \in {JsonObjectText, HtmlBody}}
    \cup {NinjaBehaviour("ok_undecodable", 200, HtmlBody, "", NoRecord),
          NinjaBehaviour("ok", 200, JsonObjectText, "empty_list", NoRecord),
          NinjaBehaviour("ok", 200, JsonObjectText, "scalar", NoRecord)}
    \cup {NinjaBehaviour("ok", 200, JsonObjectText, sh, r) :
            sh \in {"list", "dict"}, r \in TranscriptRecords}
    \cup {NinjaBehaviour("ok", 200, JsonObjectText, "list", e) : e \in ScalarElements}

NoNinjaBehaviour == NinjaBehaviour("none", 0, <<>>, "", NoRecord)

\* the try body of _make_request: requests.get, raise_for_status, response.json
\* and the dispatch on the shape of the decoded body
NinjaGet(b, lib) ==
    CASE b.kind = "conn_error" -> Raise(Exc("ConnectionError", LibMsg("ConnectionError")))
      [] b.kind = "connect_timeout" -> Raise(Exc("ConnectTimeout", LibMsg("ConnectTimeout")))
      [] b.kind = "read_timeout" -> Raise(Exc("ReadTimeout", LibMsg("ReadTimeout")))
      [] b.kind = "http_error" -> Raise(Exc("HTTPError", LibMsg("HTTPError")))
      [] b.kind = "ok_undecodable" ->
            Raise(Exc(JsonErrorType(lib), LibMsg("JSONDecodeError")))
      [] b.shape = "empty_list" -> Return(PyNone)
      [] b.shape \in {"list", "dict"} -> Return(b.record)
      [] OTHER ->
            Raise(Exc("ValueError",
                      <<Lit("Unexpected top-level response format from API Ninjas: "),
                        Lit(b.shape), Lit(". Full response: "), Val(b.body)>>))

NinjaRequestClauses ==
    <<"HTTPError", "ConnectionError", "Timeout", "JSONDecodeError", "Exception">>

\* except clauses that answer a timeout with None
NinjaRequestHandlerSwallowing(b, e) ==
    LET clause == CaughtBy(NinjaRequestClauses, e.type)
    IN IF clause = "Timeout" THEN Return(PyNone)
       ELSE Raise(Exc("ValueError", <<Lit("API Ninjas error")>>))

\* the except clauses of _make_request
NinjaRequestHandler(b, e) ==
    LET clause == CaughtBy(NinjaRequestClauses, e.type)
    IN CASE clause = "HTTPError" ->
              Raise(Exc("ValueError",
                        <<Lit("API Ninjas returned an HTTP error "), Num(b.status),
                          Lit(": "), Val(b.body)>>))
         [] clause = "ConnectionError" ->
              Raise(Exc("RequestException",
                        <<Lit("Network connection error to API Ninjas: ")>> \o e.msg))
         [] clause = "Timeout" ->
              Raise(Exc("RequestException",
                        <<Lit("API Ninjas request timed out: ")>> \o e.msg))
         [] clause = "JSONDecodeError" ->
              Raise(Exc("ValueError",
                        <<Lit("Failed to decode JSON from API Ninjas response: ")>> \o e.msg
                        \o <<Lit(". Response: "), Val(b.body)>>))
         [] clause = "Exception" ->
              Raise(Exc("Exception",
                        <<Lit("An unknown error occurred during API call to API Ninjas: ")>>
                        \o e.msg))
         [] OTHER -> Raise(e)

NinjaMakeRequest(b, lib) ==
    LET r == NinjaGet(b, lib)
    IN IF r.tag = "return" THEN r ELSE NinjaRequestHandler(b, r.value)

\* .get on a value that is not a dict
NoGetAttribute ==
    Raise(Exc("AttributeError", <<Lit("'str' object has no attribute 'get'")>>))

\* a fetch that tests the text against None only
GetEarningsTranscriptResultNoneOnly(b, lib) ==
    LET r == NinjaMakeRequest(b, lib)
    IN IF r.tag = "raise" THEN r
       ELSE IF ~IsDict(r.value)
            THEN IF Falsy(r.value) THEN Return(PyNone) ELSE NoGetAttribute
       ELSE IF r.value.transcript = PyNone THEN Return(PyNone)
       ELSE Return(r.value)

\* a fetch that raises when the record has no text
GetEarningsTranscriptResultRaising(b, lib) ==
    LET r == NinjaMakeRequest(b, lib)
    IN IF r.tag = "raise" THEN r
       ELSE IF ~IsDict(r.value)
            THEN IF Falsy(r.value) THEN Return(PyNone) ELSE NoGetAttribute
       ELSE IF Falsy(r.value.transcript)
            THEN Raise(Exc("ValueError", <<Lit("Transcript text missing")>>))
       ELSE Return(r.value)

\* get_earnings_transcript from the answer of _make_request on
GetEarningsTranscriptResult(b, lib) ==
    LET r == NinjaMakeRequest(b, lib)
    IN IF r.tag = "raise" THEN r
       ELSE IF ~IsDict(r.value)
            THEN IF Falsy(r.value) THEN Return(PyNone) ELSE NoGetAttribute
       ELSE IF Falsy(r.value.transcript) THEN Return(PyNone)
       ELSE Return(r.value)

\* The logo endpoint answers with records of name, ticker and image.
ProfileRecord(name, ticker, image) == [name |-> name, ticker |-> ticker, image |-> image]

ProfileRecords ==
    {ProfileRecord(Str(<<"n">>), Str(<<"M", "S">>), Str(<<"u">>)),
     ProfileRecord(Str(<<"n">>), Str(<<"M", "S">>), PyNone),
     ProfileRecord(Str(<<>>), Str(<<"M", "S">>), Str(<<"u">>)),
     ProfileRecord(PyNone, PyNone, PyNone)}

ProfileBehaviours ==
    {b \in NinjaBehaviours : b.record = NoRecord \/ ~IsDict(b.record)}
    \cup {NinjaBehaviour("ok", 200, JsonObjectText, sh, r) :
            sh \in {"list", "dict"}, r \in ProfileRecords}

\* get_company_profile_basic from the answer of _make_request on
GetCompanyProfileBasicResult(b, lib) ==
    LET r == NinjaMakeRequest(b, lib)
    IN IF r.tag = "raise" THEN r
       ELSE IF ~IsDict(r.value)
            THEN IF Falsy(r.value) THEN Return(PyNone) ELSE NoGetAttribute
       ELSE IF Falsy(r.value.name) \/ Falsy(r.value.ticker) \/ Falsy(r.value.image)
            THEN Return(PyNone)
       ELSE Return([name |-> r.value.name, symbol |-> r.value.ticker,
                    logo_url |-> r.value.image])

(***************************************************************************)
(* State                                                                   *)
(***************************************************************************)
VARIABLES
    clients,    \* the service objects that exist: their api_key and model
    lastCtor,   \* the last constructor call and how it ended
    calls,      \* per provider client, the analyze_transcript call under way
    dual,       \* the dual analysis under way: attempts and results per provider
    ninja,      \* the NinjasService.get_earnings_transcript call under way
    session,    \* the transaction of db.session: "active", or "inactive" after a failed commit
    users,      \* rows of table users
    companies,  \* rows of table companies
    transcripts,\* rows of table earnings_call_transcripts
    reports,    \* rows of table analysis_reports
    watchlist,  \* rows of table user_watchlists
    now,        \* the clock get_current_datetime reads
    lastOp      \* the last DataManager call: its arguments and what it returned

storeVars == <<session, users, companies, transcripts, reports, watchlist, now, lastOp>>

serviceVars == <<clients, lastCtor, calls, dual, ninja>>

vars == <<clients, lastCtor, calls, dual, ninja, session, users, companies, transcripts,
          reports, watchlist, now, lastOp>>

Providers == {"chatgpt", "gemini"}

Services == Providers \cup {"ninjas"}

DefaultModel(s) ==
    CASE s = "chatgpt" -> "gpt-4o-mini"
      [] s = "gemini" -> "gemini-2.5-flash"
      [] OTHER -> ""

ApiKeys == {PyNone, Str(<<>>), Str(<<"k">>)}

Transcripts == {Str(<<>>), Str(<<"t">>)}

Prompts == {Str(<<>>), Str(<<"p">>)}

NoClient == [exists |-> FALSE, api_key |-> PyNone, model |-> ""]

NoOutcome == [tag |-> "none", value |-> PyNone]

IdleCall ==
    [pc |-> "idle", text |-> PyNone, prompt |-> PyNone, requests |-> 0,
     behaviour |-> NoBehaviour, outcome |-> NoOutcome]

(***************************************************************************)
(* Constructors: ChatGPTService, GeminiService, NinjasService __init__     *)
(***************************************************************************)
\* a constructor that tests `api_key is None` instead of `not api_key`
CtorRejectsNoneOnly(s, key) == key.t = "none"

\* `if not api_key: raise ValueError(...)`
CtorRejects(s, key) == Falsy(key)

Construct(s, key) ==
    /\ IF CtorRejects(s, key)
       THEN /\ clients' = clients
            /\ lastCtor' = [service |-> s, arg |-> key, outcome |-> "ValueError"]
       ELSE /\ clients' = [clients EXCEPT
                             ![s] = [exists |-> TRUE, api_key |-> key,
                                     model |-> DefaultModel(s)]]
            /\ lastCtor' = [service |-> s, arg |-> key, outcome |-> "ok"]
    /\ UNCHANGED <<calls, dual, ninja, storeVars>>

(***************************************************************************)
(* analyze_transcript, in the two steps its network call splits it into:   *)
(* up to the request being sent, and from the response on.                 *)
(***************************************************************************)
SendsRequest(p, text, prompt) ==
    IF p = "chatgpt" THEN ChatGPTSendsRequest(text, prompt)
    ELSE GeminiSendsRequest(text, prompt)

AnalyzeOutcome(p, model, b, lib) ==
    IF p = "chatgpt" THEN ChatGPTAnalyzeTranscript(model, b)
    ELSE GeminiAnalyzeTranscript(model, b, lib)

\* the remote requests one call has issued when it ends with `resent` re-sends
RequestsIssued(p, resent) == IF p = "chatgpt" THEN 1 + resent ELSE 1

Resends(p, b) == IF p = "chatgpt" THEN SdkResends(b) ELSE {0}

CallBegun(p, text, prompt) ==
    IF SendsRequest(p, text, prompt)
    THEN [pc |-> "inflight", text |-> text, prompt |-> prompt, requests |-> 1,
          behaviour |-> NoBehaviour, outcome |-> NoOutcome]
    ELSE [pc |-> "done", text |-> text, prompt |-> prompt, requests |-> 0,
          behaviour |-> NoBehaviour, outcome |-> ChatGPTRejection]

CallEnded(p, call, b, lib, resent) ==
    [call EXCEPT !.pc = "done",
                 !.behaviour = b,
                 !.requests = RequestsIssued(p, resent),
                 !.outcome = AnalyzeOutcome(p, clients[p].model, b, lib)]

AnalyzeStart(p, text, prompt) ==
    /\ clients[p].exists
    /\ calls[p].pc # "inflight"
    /\ calls' = [calls EXCEPT ![p] = CallBegun(p, text, prompt)]
    /\ UNCHANGED <<clients, lastCtor, dual, ninja, storeVars>>

\* a client whose response handling writes into state both clients share
CallsAfterResponseShared(p, b, lib, resent) ==
    [q \in Providers |-> CallEnded(p, calls[p], b, lib, resent)]

\* the calls once p's response is handled: only p's own call changes
CallsAfterResponse(p, b, lib, resent) ==
    [calls EXCEPT ![p] = CallEnded(p, calls[p], b, lib, resent)]

AnalyzeComplete(p, b, lib, resent) ==
    /\ calls[p].pc = "inflight"
    /\ calls' = CallsAfterResponse(p, b, lib, resent)
    /\ UNCHANGED <<clients, lastCtor, dual, ninja, storeVars>>

(***************************************************************************)
(* The analysis orchestrator, runDualAnalysis.  The repository's sources   *)
(* hold no orchestrator: it is modelled from the design (sections 4.2,     *)
(* 4.3, 5 and 7) on top of the two clients above.                          *)
(***************************************************************************)
MaxProviderCalls == 2

\* the failure kind the remote behaviour b stands for (section 4.2)
FailureKind(b) ==
    CASE b.kind = "conn_error" -> "NetworkError"
      [] b.kind \in {"connect_timeout", "read_timeout"} -> "Timeout"
      [] b.kind = "http_error" /\ b.status \in {401, 403} -> "AuthError"
      [] b.kind = "http_error" /\ b.status = 429 -> "RateLimited"
      [] b.kind \in {"ok_undecodable", "ok_no_text"} -> "MalformedResponse"
      [] OTHER -> "none"

PendingResult == [outcome |-> "pending", payload |-> PyNone, kind |-> "", detail |-> <<>>]

SuccessResult(payload) ==
    [outcome |-> "Success", payload |-> payload, kind |-> "", detail |-> <<>>]

FailureResult(kind, detail) ==
    [outcome |-> "Failure", payload |-> PyNone, kind |-> kind, detail |-> detail]

\* the error boundary around one client call: what the call returned or
\* raised becomes a ProviderResult value
ToProviderResult(call) ==
    IF call.outcome.tag = "return" /\ call.outcome.value.success
    THEN SuccessResult(call.outcome.value.analysis)
    ELSE FailureResult(
            IF call.requests = 0 THEN "EmptyInput"
            ELSE IF FailureKind(call.behaviour) # "none" THEN FailureKind(call.behaviour)
            ELSE "ProviderError",
            IF call.outcome.tag = "return" THEN call.outcome.value.error
            ELSE call.outcome.value.msg)

\* an orchestrator that calls again after any failure
ShouldRetryAnyFailure(result, attempts) ==
    result.outcome = "Failure" /\ attempts < MaxProviderCalls

\* retry policy: one retry, only after NetworkError or Timeout
ShouldRetry(result, attempts) ==
    /\ result.outcome = "Failure"
    /\ result.kind \in {"NetworkError", "Timeout"}
    /\ attempts < MaxProviderCalls

NoRemote == [b |-> NoBehaviour, lib |-> "", resent |-> 0]

IdleDual ==
    [pc |-> "idle", transcript |-> PyNone, instruction |-> PyNone,
     attempts |-> [p \in Providers |-> 0],
     results |-> [p \in Providers |-> PendingResult],
     firstKind |-> [p \in Providers |-> ""],
     remote |-> [p \in Providers |-> NoRemote]]

DualStart(transcript, instruction) ==
    /\ dual.pc # "running"
    /\ dual' = [IdleDual EXCEPT !.pc = "running",
                                !.transcript = transcript,
                                !.instruction = instruction]
    /\ calls' = [p \in Providers |-> IdleCall]
    /\ UNCHANGED <<clients, lastCtor, ninja, storeVars>>

\* the orchestrator takes the result of p's call, or leaves it pending for a retry
Collected(d, p, call, remote) ==
    LET result == ToProviderResult(call)
    IN [d EXCEPT
          !.results[p] = IF ShouldRetry(result, d.attempts[p]) THEN PendingResult ELSE result,
          !.firstKind[p] = IF d.firstKind[p] = "" /\ result.outcome = "Failure"
                           THEN result.kind ELSE @,
          !.remote[p] = remote]

\* the orchestrator calls client p; a call the client rejects locally is over at once
DualInvoke(p) ==
    /\ dual.pc = "running"
    /\ dual.results[p].outcome = "pending"
    /\ calls[p].pc # "inflight"
    /\ dual.attempts[p] < MaxProviderCalls
    /\ clients[p].exists
    /\ LET call == CallBegun(p, dual.transcript, dual.instruction)
           counted == [dual EXCEPT !.attempts[p] = @ + 1]
       IN /\ calls' = [calls EXCEPT ![p] = call]
          /\ dual' = IF call.pc = "done"
                     THEN Collected(counted, p, call, NoRemote)
                     ELSE counted
    /\ UNCHANGED <<clients, lastCtor, ninja, storeVars>>

\* p's response (or transport failure) arrives and the client call ends
DualResponse(p, b, lib, resent) ==
    /\ dual.pc = "running"
    /\ calls[p].pc = "inflight"
    /\ calls' = CallsAfterResponse(p, b, lib, resent)
    /\ dual' = Collected(dual, p, calls'[p], [b |-> b, lib |-> lib, resent |-> resent])
    /\ UNCHANGED <<clients, lastCtor, ninja, storeVars>>

\* the wall-clock ceiling: calls still pending are cancelled as Failure(Timeout)
DualDeadline ==
    /\ dual.pc = "running"
    /\ \E p \in Providers : dual.results[p].outcome = "pending"
    /\ dual' = [dual EXCEPT
                  !.pc = "done",
                  !.results = [p \in Providers |->
                                 IF dual.results[p].outcome = "pending"
                                 THEN FailureResult("Timeout", <<Lit("cancelled")>>)
                                 ELSE dual.results[p]]]
    /\ calls' = [p \in Providers |->
                   IF calls[p].pc = "inflight" THEN IdleCall ELSE calls[p]]
    /\ UNCHANGED <<clients, lastCtor, ninja, storeVars>>

\* both results are in: runDualAnalysis returns the pair
DualReturn ==
    /\ dual.pc = "running"
    /\ \A p \in Providers : dual.results[p].outcome # "pending"
    /\ dual' = [dual EXCEPT !.pc = "done"]
    /\ UNCHANGED <<clients, lastCtor, calls, ninja, storeVars>>

(***************************************************************************)
(* get_earnings_transcript, in two steps: up to the request, and from the  *)
(* response on.                                                            *)
(***************************************************************************)
Tickers == {<<"m", "s">>, <<"M", "S">>}

YearInputs == {MinYear - 1, MinYear, 2024, MaxYear, MaxYear + 1}

QuarterInputs == (MinQuarter - 1) .. (MaxQuarter + 1)

IdleNinja ==
    [op |-> "", pc |-> "idle", ticker |-> <<>>, year |-> 0, quarter |-> 0, requests |-> 0,
     params |-> [ticker |-> <<>>, year |-> 0, quarter |-> 0],
     behaviour |-> NoNinjaBehaviour, outcome |-> NoOutcome]

TranscriptStart(ticker, year, quarter) ==
    /\ clients["ninjas"].exists
    /\ ninja.pc # "inflight"
    /\ ninja' =
          IF ValidationError(year, quarter) # <<>>
          THEN [IdleNinja EXCEPT
                  !.op = "get_earnings_transcript",
                  !.pc = "done", !.ticker = ticker, !.year = year, !.quarter = quarter,
                  !.outcome = Raise(Exc("ValueError", ValidationError(year, quarter)))]
          ELSE [IdleNinja EXCEPT
                  !.op = "get_earnings_transcript",
                  !.pc = "inflight", !.ticker = ticker, !.year = year, !.quarter = quarter,
                  !.requests = 1,
                  !.params = [ticker |-> Upper(ticker), year |-> year, quarter |-> quarter]]
    /\ UNCHANGED <<clients, lastCtor, calls, dual, storeVars>>

TranscriptResponse(b, lib) ==
    /\ ninja.op = "get_earnings_transcript"
    /\ ninja.pc = "inflight"
    /\ ninja' = [ninja EXCEPT !.pc = "done",
                              !.behaviour = b,
                              !.outcome = GetEarningsTranscriptResult(b, lib)]
    /\ UNCHANGED <<clients, lastCtor, calls, dual, storeVars>>

\* get_company_profile_basic, in the same two steps
ProfileStart(ticker) ==
    /\ clients["ninjas"].exists
    /\ ninja.pc # "inflight"
    /\ ninja' = [IdleNinja EXCEPT
                  !.op = "get_company_profile_basic",
                  !.pc = "inflight", !.ticker = ticker, !.requests = 1,
                  !.params = [ticker |-> Upper(ticker), year |-> 0, quarter |-> 0]]
    /\ UNCHANGED <<clients, lastCtor, calls, dual, storeVars>>

ProfileResponse(b, lib) ==
    /\ ninja.op = "get_company_profile_basic"
    /\ ninja.pc = "inflight"
    /\ ninja' = [ninja EXCEPT !.pc = "done",
                              !.behaviour = b,
                              !.outcome = GetCompanyProfileBasicResult(b, lib)]
    /\ UNCHANGED <<clients, lastCtor, calls, dual, storeVars>>

ConstructNinjas(key) == Construct("ninjas", key)

(***************************************************************************)
(* DataManager (data/data_manager.py) over the tables of                   *)
(* data/data_models.py.  A column value is a string, NULL being Null; an   *)
(* integer column holds NullId for NULL.  The models target SQLite and set *)
(* no foreign-key pragma: foreign keys are declared, not enforced.         *)
(***************************************************************************)
Null == "<null>"

NullId == 0

\* ids are never reused once the largest is deleted: an insert that would pass
\* a table's cap is left out, a call that fails is not
MaxUserId == 2

MaxTranscriptId == 2

MaxReportId == 2

MaxWatchlistId == 2

MaxClock == 1

Max(S) == CHOOSE x \in S : \A y \in S : y <= x

\* an INTEGER PRIMARY KEY without AUTOINCREMENT: one more than the largest id in use
NextId(ids) == IF ids = {} THEN 1 ELSE Max(ids) + 1

\* The last DataManager call: its name, its key arguments, whether the database
\* failed during its commit (fault), the except clause that ran ("" when none
\* did), and what it returned: ok is whether the value
\* is truthy (a row, True), id the row's primary key, NullId for None.
NoOp == [op |-> "none", user_id |-> NullId, transcript_id |-> NullId,
         ticker |-> Null, year |-> 0, quarter |-> 0,
         fault |-> FALSE, caught |-> "", ok |-> FALSE, id |-> NullId]

Op(name, ok, id) == [NoOp EXCEPT !.op = name, !.ok = ok, !.id = id]

\* the except clause a failing commit ends in: IntegrityError for a violated
\* constraint, the catch-all for any other database error, among them the
\* PendingRollbackError of a session whose failed transaction was not rolled back
Caught(dbError, integrityError) ==
    IF dbError \/ session = "inactive" THEN "Exception"
    ELSE IF integrityError THEN "IntegrityError" ELSE ""

\* a handler that returns None without rolling back
RollbackSkipped(s) == s

\* db.session.rollback(): the session can be used again
Rollback(s) == "active"

\* the session after a commit: a commit that raised leaves the transaction
\* inactive, and the except clause that caught it (caught # "") rolls it back
AfterCommit(caught) == IF caught # "" THEN Rollback("inactive") ELSE session

\* both except clauses roll back and return None
Failed(name, caught) == [Op(name, FALSE, NullId) EXCEPT !.caught = caught]

\* --- users ---
UserIntegrityError(username, email) ==
    \/ username = Null
    \/ \E u \in users : u.username = username
    \/ email # Null /\ \E u \in users : u.email = email

\* create_user: the row on success, None on IntegrityError or any other error
CreateUser(username, email, dbError) ==
    /\ LET caught == Caught(dbError, UserIntegrityError(username, email))
           id == NextId({u.user_id : u \in users})
       IN /\ (caught = "" => id <= MaxUserId)
          /\ IF caught # ""
             THEN /\ users' = users
                  /\ lastOp' = [Failed("create_user", caught) EXCEPT !.fault = dbError]
             ELSE /\ users' = users \cup {[user_id |-> id, username |-> username,
                                           email |-> email]}
                  /\ lastOp' = Op("create_user", TRUE, id)
          /\ session' = AfterCommit(caught)
    /\ UNCHANGED <<companies, transcripts, reports, watchlist, now, serviceVars>>

\* the unique constraint on email, seen by an UPDATE of one user's row
UpdateIntegrityError(user_id, email) ==
    email # Null /\ \E u \in users : u.user_id # user_id /\ u.email = email

\* update_user_profile(user_id, email=...): None when the user is missing, the
\* updated row on success, None on IntegrityError or any other error
UpdateUserProfile(user_id, email, dbError) ==
    /\ LET call == [NoOp EXCEPT !.op = "update_user_profile", !.user_id = user_id]
       IN IF ~\E u \in users : u.user_id = user_id
          THEN /\ lastOp' = call
               /\ UNCHANGED <<session, users>>
          ELSE LET caught == Caught(dbError, UpdateIntegrityError(user_id, email))
               IN /\ session' = AfterCommit(caught)
                  /\ IF caught # ""
                     THEN /\ users' = users
                          /\ lastOp' = [call EXCEPT !.caught = caught, !.fault = dbError]
                     ELSE /\ users' = {IF u.user_id = user_id
                                       THEN [u EXCEPT !.email = email] ELSE u : u \in users}
                          /\ lastOp' = [call EXCEPT !.ok = TRUE, !.id = user_id]
    /\ UNCHANGED <<companies, transcripts, reports, watchlist, now, serviceVars>>

\* a delete that leaves the user's rows behind
DeleteUserNoCascade(user_id, dbError) ==
    /\ \E u \in users : u.user_id = user_id
    /\ ~dbError
    /\ users' = {u \in users : u.user_id # user_id}
    /\ lastOp' = [Op("delete_user", TRUE, user_id) EXCEPT !.user_id = user_id]
    /\ UNCHANGED <<session, companies, transcripts, reports, watchlist, now, serviceVars>>

\* delete_user: False when the user is missing or on error; the ORM cascade
\* ("all, delete-orphan") deletes the user's analysis reports and watchlist
\* items with the user
DeleteUser(user_id, dbError) ==
    /\ IF ~\E u \in users : u.user_id = user_id
       THEN /\ UNCHANGED <<session, users, reports, watchlist>>
            /\ lastOp' = [Op("delete_user", FALSE, NullId) EXCEPT !.user_id = user_id]
       ELSE IF dbError
       THEN /\ UNCHANGED <<users, reports, watchlist>>
            /\ session' = Rollback("inactive")
            /\ lastOp' = [Failed("delete_user", "Exception") EXCEPT !.user_id = user_id,
                                                                   !.fault = TRUE]
       ELSE /\ UNCHANGED session
            /\ users' = {u \in users : u.user_id # user_id}
            /\ reports' = {r \in reports : r.user_id # user_id}
            /\ watchlist' = {w \in watchlist : w.user_id # user_id}
            /\ lastOp' = [Op("delete_user", TRUE, user_id) EXCEPT !.user_id = user_id]
    /\ UNCHANGED <<companies, transcripts, now, serviceVars>>

\* --- companies ---
\* the primary key ticker_symbol, and NOT NULL on company_name
CompanyIntegrityError(ticker, company_name) ==
    \/ ticker = Null
    \/ company_name = Null
    \/ \E c \in companies : c.ticker_symbol = ticker

\* add_company: the row on success, None on IntegrityError or any other error;
\* the nullable columns industry, sector, exchange and logo_url are left out
AddCompany(ticker, company_name, dbError) ==
    /\ LET caught == Caught(dbError, CompanyIntegrityError(ticker, company_name))
           call == [NoOp EXCEPT !.op = "add_company", !.ticker = ticker,
                                !.fault = dbError]
       IN /\ IF caught # ""
             THEN /\ companies' = companies
                  /\ lastOp' = [call EXCEPT !.caught = caught]
             ELSE /\ companies' = companies \cup
                        {[ticker_symbol |-> ticker, company_name |-> company_name]}
                  /\ lastOp' = [call EXCEPT !.ok = TRUE]
          /\ session' = AfterCommit(caught)
    /\ UNCHANGED <<users, transcripts, reports, watchlist, now, serviceVars>>

\* --- earnings call transcripts ---
\* a table without the unique constraint on (ticker, year, quarter)
TranscriptIntegrityErrorNoUnique(ticker, year, quarter, raw_text) ==
    ticker = Null \/ raw_text = Null

TranscriptIntegrityError(ticker, year, quarter, raw_text) ==
    \/ ticker = Null
    \/ raw_text = Null
    \/ \E t \in transcripts :
          /\ t.ticker_symbol = ticker
          /\ t.fiscal_year = year
          /\ t.fiscal_quarter = quarter

\* an add that overwrites the stored transcript of the same period
AddTranscriptUpsert(ticker, year, quarter, raw_text, speaker_segments, dbError) ==
    /\ LET same == {t \in transcripts : /\ t.ticker_symbol = ticker
                                        /\ t.fiscal_year = year
                                        /\ t.fiscal_quarter = quarter}
           caught == Caught(dbError, ticker = Null \/ raw_text = Null)
           id == IF same = {} THEN NextId({t.transcript_id : t \in transcripts})
                 ELSE (CHOOSE t \in same : TRUE).transcript_id
           call == [NoOp EXCEPT !.op = "add_transcript", !.ticker = ticker,
                                !.year = year, !.quarter = quarter,
                                !.fault = dbError]
       IN /\ (caught = "" => id <= MaxTranscriptId)
          /\ IF caught # ""
             THEN /\ transcripts' = transcripts
                  /\ lastOp' = [call EXCEPT !.caught = caught]
             ELSE /\ transcripts' = (transcripts \ same) \cup
                        {[transcript_id |-> id, ticker_symbol |-> ticker,
                          fiscal_year |-> year, fiscal_quarter |-> quarter,
                          raw_text |-> raw_text,
                          speaker_segments |-> speaker_segments,
                          fetched_at |-> now]}
                  /\ lastOp' = [call EXCEPT !.ok = TRUE, !.id = id]
          /\ session' = AfterCommit(caught)
    /\ UNCHANGED <<users, companies, reports, watchlist, now, serviceVars>>

\* add_transcript: the row on success, None on IntegrityError or any other error
AddTranscript(ticker, year, quarter, raw_text, speaker_segments, dbError) ==
    /\ LET caught == Caught(dbError, TranscriptIntegrityError(ticker, year, quarter, raw_text))
           id == NextId({t.transcript_id : t \in transcripts})
           call == [NoOp EXCEPT !.op = "add_transcript", !.ticker = ticker,
                                !.year = year, !.quarter = quarter,
                                !.fault = dbError]
       IN /\ (caught = "" => id <= MaxTranscriptId)
          /\ IF caught # ""
             THEN /\ transcripts' = transcripts
                  /\ lastOp' = [call EXCEPT !.caught = caught]
             ELSE /\ transcripts' = transcripts \cup
                        {[transcript_id |-> id, ticker_symbol |-> ticker,
                          fiscal_year |-> year, fiscal_quarter |-> quarter,
                          raw_text |-> raw_text,
                          speaker_segments |-> speaker_segments,
                          fetched_at |-> now]}
                  /\ lastOp' = [call EXCEPT !.ok = TRUE, !.id = id]
          /\ session' = AfterCommit(caught)
    /\ UNCHANGED <<users, companies, reports, watchlist, now, serviceVars>>

\* --- analysis reports ---
\* The eight columns of each provider are nullable and stored as passed; the
\* model keeps two of them, summary and overall_sentiment.
AbsentAnalysis == [summary |-> Null, overall_sentiment |-> Null]

AnalysisInputs ==
    {AbsentAnalysis, [summary |-> "s", overall_sentiment |-> "bullish"]}

\* AnalysisReport(...): the columns as passed, analysis_date from the clock
NewReport(id, user_id, transcript_id, gemini, chatgpt) ==
    [report_id |-> id, user_id |-> user_id, transcript_id |-> transcript_id,
     analysis_date |-> now, gemini |-> gemini, chatgpt |-> chatgpt]

\* a unique constraint on (user_id, transcript_id) alone
ReportIntegrityErrorNoDate(user_id, transcript_id) ==
    \/ user_id = NullId
    \/ transcript_id = NullId
    \/ \E r \in reports : r.user_id = user_id /\ r.transcript_id = transcript_id

\* NOT NULL on user_id and transcript_id, and the unique constraint
\* (user_id, transcript_id, analysis_date)
ReportIntegrityError(user_id, transcript_id) ==
    \/ user_id = NullId
    \/ transcript_id = NullId
    \/ \E r \in reports :
          /\ r.user_id = user_id
          /\ r.transcript_id = transcript_id
          /\ r.analysis_date = now

\* create_analysis_report: the row on success, None on IntegrityError or any
\* other error
CreateAnalysisReport(user_id, transcript_id, gemini, chatgpt, dbError) ==
    /\ LET caught == Caught(dbError, ReportIntegrityError(user_id, transcript_id))
           id == NextId({r.report_id : r \in reports})
           call == [NoOp EXCEPT !.op = "create_analysis_report",
                                !.user_id = user_id, !.transcript_id = transcript_id,
                                !.fault = dbError]
       IN /\ (caught = "" => id <= MaxReportId)
          /\ IF caught # ""
             THEN /\ reports' = reports
                  /\ lastOp' = [call EXCEPT !.caught = caught]
             ELSE /\ reports' = reports \cup
                        {NewReport(id, user_id, transcript_id, gemini, chatgpt)}
                  /\ lastOp' = [call EXCEPT !.ok = TRUE, !.id = id]
          /\ session' = AfterCommit(caught)
    /\ UNCHANGED <<users, companies, transcripts, watchlist, now, serviceVars>>

ReportsFor(user_id, transcript_id) ==
    {r \in reports : r.user_id = user_id /\ r.transcript_id = transcript_id}

\* ORDER BY analysis_date ASC
EarliestFirst(rows) == {r \in rows : \A q \in rows : r.analysis_date <= q.analysis_date}

\* ORDER BY analysis_date DESC: the rows that can come first; rows of equal
\* date come in an order the database chooses
LatestFirst(rows) == {r \in rows : \A q \in rows : q.analysis_date <= r.analysis_date}

\* get_latest_report_for_user_and_transcript: filter_by, order_by desc, first()
GetLatestReport(user_id, transcript_id) ==
    /\ LET rows == ReportsFor(user_id, transcript_id)
           call == [NoOp EXCEPT !.op = "get_latest_report",
                                !.user_id = user_id, !.transcript_id = transcript_id]
       IN IF rows = {}
          THEN lastOp' = call
          ELSE \E r \in LatestFirst(rows) :
                  lastOp' = [call EXCEPT !.ok = TRUE, !.id = r.report_id]
    /\ UNCHANGED <<session, users, companies, transcripts, reports, watchlist, now,
                   serviceVars>>

\* --- watchlists ---
\* a table without the unique constraint on (user_id, ticker_symbol)
WatchlistIntegrityErrorNoUnique(user_id, ticker) ==
    user_id = NullId \/ ticker = Null

\* NOT NULL on user_id and ticker_symbol, and the unique constraint
\* (user_id, ticker_symbol)
WatchlistIntegrityError(user_id, ticker) ==
    \/ user_id = NullId
    \/ ticker = Null
    \/ \E w \in watchlist : w.user_id = user_id /\ w.ticker_symbol = ticker

\* add_stock_to_watchlist: the row on success, None on IntegrityError or any
\* other error
AddStockToWatchlist(user_id, ticker, dbError) ==
    /\ LET caught == Caught(dbError, WatchlistIntegrityError(user_id, ticker))
           id == NextId({w.watchlist_item_id : w \in watchlist})
           call == [NoOp EXCEPT !.op = "add_stock_to_watchlist",
                                !.user_id = user_id, !.ticker = ticker,
                                !.fault = dbError]
       IN /\ (caught = "" => id <= MaxWatchlistId)
          /\ IF caught # ""
             THEN /\ watchlist' = watchlist
                  /\ lastOp' = [call EXCEPT !.caught = caught]
             ELSE /\ watchlist' = watchlist \cup
                        {[watchlist_item_id |-> id, user_id |-> user_id,
                          ticker_symbol |-> ticker]}
                  /\ lastOp' = [call EXCEPT !.ok = TRUE, !.id = id]
          /\ session' = AfterCommit(caught)
    /\ UNCHANGED <<users, companies, transcripts, reports, now, serviceVars>>

\* remove_stock_from_watchlist: False when the item is missing or on error
RemoveStockFromWatchlist(user_id, ticker, dbError) ==
    /\ LET items == {w \in watchlist : w.user_id = user_id /\ w.ticker_symbol = ticker}
           call == [NoOp EXCEPT !.op = "remove_stock_from_watchlist",
                                !.user_id = user_id, !.ticker = ticker]
       IN IF items = {}
          THEN /\ watchlist' = watchlist
               /\ lastOp' = call
               /\ UNCHANGED session
          ELSE IF dbError
          THEN /\ watchlist' = watchlist
               /\ session' = Rollback("inactive")
               /\ lastOp' = [call EXCEPT !.caught = "Exception", !.fault = TRUE]
          ELSE \E item \in items :
                  /\ watchlist' = watchlist \ {item}
                  /\ lastOp' = [call EXCEPT !.ok = TRUE, !.id = item.watchlist_item_id]
                  /\ UNCHANGED session
    /\ UNCHANGED <<users, companies, transcripts, reports, now, serviceVars>>

InWatchlist(user_id, ticker) ==
    \E w \in watchlist : w.user_id = user_id /\ w.ticker_symbol = ticker

\* is_stock_in_watchlist: whether filter_by(user_id, ticker_symbol).first()
\* finds a row
IsStockInWatchlist(user_id, ticker) ==
    /\ lastOp' = [NoOp EXCEPT !.op = "is_stock_in_watchlist",
                              !.user_id = user_id, !.ticker = ticker,
                              !.ok = InWatchlist(user_id, ticker)]
    /\ UNCHANGED <<session, users, companies, transcripts, reports, watchlist, now,
                   serviceVars>>

\* time passes between two calls
Tick ==
    /\ now < MaxClock
    /\ now' = now + 1
    /\ UNCHANGED <<session, users, companies, transcripts, reports, watchlist, lastOp,
                   serviceVars>>

(***************************************************************************)
(* Specifications                                                          *)
(***************************************************************************)
Init ==
    /\ clients = [s \in Services |-> NoClient]
    /\ lastCtor = [service |-> "", arg |-> PyNone, outcome |-> "none"]
    /\ calls = [p \in Providers |-> IdleCall]
    /\ dual = IdleDual
    /\ ninja = IdleNinja
    /\ session = "active"
    /\ users = {}
    /\ companies = {}
    /\ transcripts = {}
    /\ reports = {}
    /\ watchlist = {}
    /\ now = 0
    /\ lastOp = NoOp

Next ==
    \/ \E s \in Services, key \in ApiKeys : Construct(s, key)
    \/ \E p \in Providers, text \in Transcripts, prompt \in Prompts :
          AnalyzeStart(p, text, prompt)
    \/ \E p \in Providers, b \in RemoteBehaviours, lib \in RequestsVersions :
          \E resent \in Resends(p, b) : AnalyzeComplete(p, b, lib, resent)

Spec == Init /\ [][Next]_vars

\* the orchestrator runs over two constructed clients
InitDual ==
    /\ clients = [s \in Services |->
                    IF s \in Providers
                    THEN [exists |-> TRUE, api_key |-> Str(<<"k">>), model |-> DefaultModel(s)]
                    ELSE NoClient]
    /\ lastCtor = [service |-> "", arg |-> PyNone, outcome |-> "none"]
    /\ calls = [p \in Providers |-> IdleCall]
    /\ dual = IdleDual
    /\ ninja = IdleNinja
    /\ session = "active"
    /\ users = {}
    /\ companies = {}
    /\ transcripts = {}
    /\ reports = {}
    /\ watchlist = {}
    /\ now = 0
    /\ lastOp = NoOp

NextDual ==
    \/ \E transcript \in Transcripts, instruction \in Prompts :
          DualStart(transcript, instruction)
    \/ \E p \in Providers : DualInvoke(p)
    \/ \E p \in Providers, b \in RemoteBehaviours, lib \in RequestsVersions :
          \E resent \in Resends(p, b) : DualResponse(p, b, lib, resent)
    \/ DualDeadline
    \/ DualReturn

SpecDual == InitDual /\ [][NextDual]_vars

NextNinjas ==
    \/ \E key \in ApiKeys : ConstructNinjas(key)
    \/ \E ticker \in Tickers, year \in YearInputs, quarter \in QuarterInputs :
          TranscriptStart(ticker, year, quarter)
    \/ \E b \in NinjaBehaviours, lib \in RequestsVersions : TranscriptResponse(b, lib)
    \/ \E ticker \in Tickers : ProfileStart(ticker)
    \/ \E b \in ProfileBehaviours, lib \in RequestsVersions : ProfileResponse(b, lib)

SpecNinjas == Init /\ [][NextNinjas]_vars

Usernames == {"ann", "bob"}

Emails == {Null, "a@x"}

UserIds == {NullId, 1, 2}

TranscriptIds == {NullId, 1}

StoreTickers == {Null, "MSFT"}

StoreYears == {2024}

StoreQuarters == {1, 2}

RawTexts == {Null, "text"}

\* the JSON column speaker_segments is nullable
SpeakerSegments == {Null, "segments"}

\* users and their analysis reports
NextStore ==
    \/ \E username \in Usernames, email \in Emails, dbError \in BOOLEAN :
          CreateUser(username, email, dbError)
    \/ \E user_id \in UserIds, dbError \in BOOLEAN : DeleteUser(user_id, dbError)
    \/ \E user_id \in UserIds, transcript_id \in TranscriptIds,
          gemini \in AnalysisInputs, chatgpt \in AnalysisInputs, dbError \in BOOLEAN :
          CreateAnalysisReport(user_id, transcript_id, gemini, chatgpt, dbError)
    \/ \E user_id \in UserIds, transcript_id \in TranscriptIds :
          GetLatestReport(user_id, transcript_id)
    \/ Tick

\* the transcript table
NextTranscripts ==
    \/ \E ticker \in StoreTickers, year \in StoreYears, quarter \in StoreQuarters,
          raw_text \in RawTexts, speaker_segments \in SpeakerSegments,
          dbError \in BOOLEAN :
          AddTranscript(ticker, year, quarter, raw_text, speaker_segments, dbError)
    \/ Tick

SpecTranscripts == Init /\ [][NextTranscripts]_vars

WatchTickers == {Null, "MSFT", "AAPL"}

\* sequences of add_stock_to_watchlist and remove_stock_from_watchlist calls,
\* and the query is_stock_in_watchlist between them
NextWatchlist ==
    \/ \E user_id \in UserIds, ticker \in WatchTickers, dbError \in BOOLEAN :
          AddStockToWatchlist(user_id, ticker, dbError)
    \/ \E user_id \in UserIds, ticker \in WatchTickers, dbError \in BOOLEAN :
          RemoveStockFromWatchlist(user_id, ticker, dbError)
    \/ \E user_id \in UserIds, ticker \in WatchTickers :
          IsStockInWatchlist(user_id, ticker)

SpecWatchlist == Init /\ [][NextWatchlist]_vars

\* users with the rows they own in both tables; what a report holds plays no
\* part in its deletion, and the analyses are left at their default None
NextCascade ==
    \/ \E username \in Usernames, email \in Emails, dbError \in BOOLEAN :
          CreateUser(username, email, dbError)
    \/ \E user_id \in UserIds, dbError \in BOOLEAN : DeleteUser(user_id, dbError)
    \/ \E user_id \in UserIds, transcript_id \in TranscriptIds, dbError \in BOOLEAN :
          CreateAnalysisReport(user_id, transcript_id, AbsentAnalysis, AbsentAnalysis,
                               dbError)
    \/ \E user_id \in UserIds, ticker \in StoreTickers, dbError \in BOOLEAN :
          AddStockToWatchlist(user_id, ticker, dbError)

SpecCascade == Init /\ [][NextCascade]_vars

\* the identity of reports and the query by user and transcript, neither of
\* which reads what a report holds: the analyses are left at their default None
NextReports ==
    \/ \E username \in Usernames, email \in Emails, dbError \in BOOLEAN :
          CreateUser(username, email, dbError)
    \/ \E user_id \in UserIds, dbError \in BOOLEAN : DeleteUser(user_id, dbError)
    \/ \E user_id \in UserIds, transcript_id \in TranscriptIds, dbError \in BOOLEAN :
          CreateAnalysisReport(user_id, transcript_id, AbsentAnalysis, AbsentAnalysis,
                               dbError)
    \/ \E user_id \in UserIds, transcript_id \in TranscriptIds :
          GetLatestReport(user_id, transcript_id)
    \/ Tick

SpecReports == Init /\ [][NextReports]_vars

SpecStore == Init /\ [][NextStore]_vars

CompanyNames == {Null, "Microsoft"}

\* every DataManager operation that writes, over all five tables, for one
\* user name and one fiscal period
NextManager ==
    \/ \E email \in Emails, dbError \in BOOLEAN : CreateUser("ann", email, dbError)
    \/ \E user_id \in {NullId, 1}, email \in Emails, dbError \in BOOLEAN :
          UpdateUserProfile(user_id, email, dbError)
    \/ \E user_id \in {NullId, 1}, dbError \in BOOLEAN : DeleteUser(user_id, dbError)
    \/ \E ticker \in StoreTickers, company_name \in CompanyNames, dbError \in BOOLEAN :
          AddCompany(ticker, company_name, dbError)
    \/ \E ticker \in StoreTickers, raw_text \in RawTexts,
          speaker_segments \in SpeakerSegments, dbError \in BOOLEAN :
          AddTranscript(ticker, 2024, 1, raw_text, speaker_segments, dbError)
    \/ \E user_id \in {NullId, 1}, dbError \in BOOLEAN :
          CreateAnalysisReport(user_id, 1, AbsentAnalysis, AbsentAnalysis, dbError)
    \/ \E user_id \in {NullId, 1}, ticker \in StoreTickers, dbError \in BOOLEAN :
          AddStockToWatchlist(user_id, ticker, dbError)
    \/ \E dbError \in BOOLEAN : RemoveStockFromWatchlist(1, "MSFT", dbError)
    \/ Tick

SpecManager == Init /\ [][NextManager]_vars

(***************************************************************************)
(* Properties of the provider clients                                      *)
(***************************************************************************)
IsFailure(outcome) == outcome.tag = "return" /\ ~outcome.value.success

IsSuccess(outcome) == outcome.tag = "return" /\ outcome.value.success

\* C1: a call with an empty transcript text or an empty instruction ends as a
\* failure without any remote request, for both provider clients.
C1_EmptyInputRejectedLocally ==
    \A p \in Providers :
        (calls[p].pc # "idle" /\ (Falsy(calls[p].text) \/ Falsy(calls[p].prompt)))
            => /\ calls[p].pc = "done"
               /\ calls[p].requests = 0
               /\ IsFailure(calls[p].outcome)

\* C2: analyze_transcript never raises: whatever the remote end does, the call
\* ends by returning a result value.
C2_NeverRaises ==
    \A p \in Providers : calls[p].pc = "done" => calls[p].outcome.tag = "return"

\* the response text was retrieved and does not parse as structured output
FreeTextRetrieved(call) ==
    /\ call.pc = "done"
    /\ call.behaviour.kind = "ok"
    /\ call.behaviour.content.t = "str"
    /\ ~JsonDecodes(call.behaviour.content.v)

C4_FailureKindIdentified ==
    \A p \in Providers :
        (/\ calls[p].pc = "done"
         /\ IsFailure(calls[p].outcome)
         /\ FailureKind(calls[p].behaviour) # "none")
            => \A b \in RemoteBehaviours, lib \in RequestsVersions :
                  (FailureKind(b) \notin {"none", FailureKind(calls[p].behaviour)})
                      => AnalyzeOutcome(p, clients[p].model, b, lib) # calls[p].outcome

\* C5: one call to analyze_transcript issues at most one remote request.
C5_AtMostOneRequest ==
    \A p \in Providers : calls[p].requests <= 1

\* C9: a service object exists only with a non-empty credential: constructing
\* one with an absent or empty credential ends in an error and creates nothing,
\* and every call is made on an object that holds a credential.
C9_NoClientWithoutCredential ==
    /\ \A s \in Services : clients[s].exists => ~Falsy(clients[s].api_key)
    /\ (lastCtor.outcome # "none" /\ Falsy(lastCtor.arg))
          => lastCtor.outcome = "ValueError"
    /\ \A p \in Providers :
          calls[p].pc # "idle" => (clients[p].exists /\ ~Falsy(clients[p].api_key))

C9_Witness ==
    /\ lastCtor.outcome = "ValueError"
    /\ lastCtor.arg = Str(<<>>)
    /\ ~clients[lastCtor.service].exists
    /\ \E p \in Providers : calls[p].pc = "done"

(***************************************************************************)
(* Properties of the dual analysis (specification SpecDual)                *)
(***************************************************************************)
\* what provider p's call comes to, computed from p's own inputs and from what
\* p's own remote end did, and from nothing else
ExpectedCall(p) ==
    IF dual.remote[p] = NoRemote
    THEN CallBegun(p, dual.transcript, dual.instruction)
    ELSE CallEnded(p, CallBegun(p, dual.transcript, dual.instruction),
                   dual.remote[p].b, dual.remote[p].lib, dual.remote[p].resent)

CancelledResult == FailureResult("Timeout", <<Lit("cancelled")>>)

\* C6: runDualAnalysis returns two provider results, one per provider; each is
\* the result of that provider's own call (or its cancellation at the ceiling),
\* whatever the other provider's call did and in whichever order they ended.
C6_TwoIsolatedResults ==
    /\ dual.pc = "done" =>
          \A p \in Providers :
              /\ dual.results[p].outcome \in {"Success", "Failure"}
              /\ \/ dual.results[p] = CancelledResult
                 \/ dual.results[p] = ToProviderResult(ExpectedCall(p))
    /\ dual.pc # "idle" =>
          \A p \in Providers : calls[p].pc = "done" => calls[p] = ExpectedCall(p)

C6_Witness ==
    /\ dual.pc = "done"
    /\ dual.remote["chatgpt"].b.kind = "read_timeout"
    /\ dual.results["chatgpt"].outcome = "Failure"
    /\ dual.results["chatgpt"].kind = "Timeout"
    /\ dual.results["chatgpt"] # CancelledResult
    /\ dual.remote["gemini"].b.content = Str(JsonObjectText)
    /\ dual.results["gemini"].outcome = "Success"

\* C7: in one dual analysis a provider is called at most twice, and a second
\* time only after its first call failed with NetworkError or Timeout; after
\* AuthError, RateLimited or MalformedResponse it is not called again.
C7_RetryPolicy ==
    \A p \in Providers :
        /\ dual.attempts[p] <= 2
        /\ dual.attempts[p] = 2 => dual.firstKind[p] \in {"NetworkError", "Timeout"}
        /\ dual.firstKind[p] \in {"AuthError", "RateLimited", "MalformedResponse"}
              => dual.attempts[p] = 1

C7_Witness ==
    /\ dual.pc = "done"
    /\ dual.attempts["gemini"] = 2
    /\ dual.firstKind["gemini"] = "NetworkError"
    /\ dual.attempts["chatgpt"] = 1
    /\ dual.firstKind["chatgpt"] = "RateLimited"

(***************************************************************************)
(* Properties of the transcript source (specification SpecNinjas)          *)
(***************************************************************************)
\* C10: get_earnings_transcript with a quarter outside 1..4 or a year outside
\* 1990..2100 raises before any request is issued; for every valid pair the
\* request is sent.
C10_ValidatedBeforeRequest ==
    ninja.op = "get_earnings_transcript" =>
        IF ninja.quarter \in 1 .. 4 /\ ninja.year \in 1990 .. 2100
        THEN /\ ninja.requests = 1
             /\ ninja.params.year = ninja.year
             /\ ninja.params.quarter = ninja.quarter
        ELSE /\ ninja.requests = 0
             /\ ninja.pc = "done"
             /\ ninja.outcome.tag = "raise"

C10_Witness ==
    /\ ninja.op = "get_earnings_transcript"
    /\ ninja.pc = "done"
    /\ ninja.quarter = 5
    /\ ninja.year = 2024
    /\ ninja.requests = 0
    /\ ninja.outcome.tag = "raise"

TranscriptDone == ninja.op = "get_earnings_transcript" /\ ninja.pc = "done"

\* C11: the error get_earnings_transcript raises for an invalid quarter or
\* year is a ValueError; the error it raises after a request was sent (a remote
\* failure) is never of that same kind.
C11_InvalidArgumentDistinct ==
    (TranscriptDone /\ ninja.requests = 1 /\ ninja.outcome.tag = "raise")
        => ninja.outcome.value.type # "ValueError"

\* C12: for valid arguments, whatever the remote answers, a value returned by
\* get_earnings_transcript is None or a transcript whose text is a non-empty
\* string.
C12_TextNonEmptyOrNotFound ==
    (TranscriptDone /\ ninja.requests = 1 /\ ninja.outcome.tag = "return")
        => \/ ninja.outcome.value = PyNone
           \/ /\ ninja.outcome.value.transcript.t = "str"
              /\ ninja.outcome.value.transcript.v # <<>>

C12_Witness ==
    /\ TranscriptDone
    /\ ninja.behaviour.shape = "dict"
    /\ ninja.behaviour.record.transcript = Str(<<>>)
    /\ ninja.outcome = Return(PyNone)

\* C13: an empty list, and a list whose first record lacks the transcript text
\* or has it empty, both end get_earnings_transcript with None, not an error.
C13_EmptyListAndMissingTextAlike ==
    (/\ TranscriptDone
     /\ ninja.behaviour.kind = "ok"
     /\ \/ ninja.behaviour.shape = "empty_list"
        \/ /\ ninja.behaviour.shape = "list"
           /\ IsDict(ninja.behaviour.record)
           /\ Falsy(ninja.behaviour.record.transcript))
        => ninja.outcome = Return(PyNone)

C13_Witness ==
    /\ TranscriptDone
    /\ ninja.behaviour.shape = "list"
    /\ IsDict(ninja.behaviour.record)
    /\ ninja.behaviour.record.transcript = PyNone
    /\ ninja.outcome = Return(PyNone)

TransportFailures == {"conn_error", "connect_timeout", "read_timeout", "ok_undecodable"}

Present(analysis) == analysis.summary # Null \/ analysis.overall_sentiment # Null

\* C8: every persisted report has at least one of its two provider
\* analyses present.
C8_AtLeastOneProviderPresent ==
    \A r \in reports : Present(r.gemini) \/ Present(r.chatgpt)

\* C20: the overall sentiment a stored report records for a provider is one of
\* Positive, Neutral, Negative, Unknown.
Sentiments == {"Positive", "Neutral", "Negative", "Unknown"}

C20_SentimentNormalized ==
    \A r \in reports : \A a \in {r.gemini, r.chatgpt} :
        a.overall_sentiment # Null => a.overall_sentiment \in Sentiments

ReportIdentityUnique ==
    \A r1 \in reports, r2 \in reports :
        (/\ r1.user_id = r2.user_id
         /\ r1.transcript_id = r2.transcript_id
         /\ r1.analysis_date = r2.analysis_date) => r1 = r2

\* a step of create_analysis_report: no other action leaves this call in
\* lastOp without moving the clock
CreateReportStep == lastOp'.op = "create_analysis_report" /\ now' = now

\* C17: no two stored reports share (user, transcript, analysis date); a create
\* whose triple is already stored returns None and stores nothing; a create
\* with a user and a transcript whose triple is new is stored, unless the
\* database fails otherwise.
C17_ReportIdentity ==
    /\ []ReportIdentityUnique
    /\ [][CreateReportStep =>
            LET dup == \E r \in reports :
                          /\ r.user_id = lastOp'.user_id
                          /\ r.transcript_id = lastOp'.transcript_id
                          /\ r.analysis_date = now
                valid == lastOp'.user_id # NullId /\ lastOp'.transcript_id # NullId
            IN /\ dup => (~lastOp'.ok /\ lastOp'.id = NullId /\ reports' = reports)
               /\ (valid /\ ~dup /\ lastOp'.caught # "Exception") =>
                     /\ lastOp'.ok
                     /\ \E r \in reports' \ reports :
                           /\ r.report_id = lastOp'.id
                           /\ r.user_id = lastOp'.user_id
                           /\ r.transcript_id = lastOp'.transcript_id
                           /\ r.analysis_date = now]_vars

C17_Witness ==
    /\ lastOp.op = "create_analysis_report"
    /\ lastOp.ok
    /\ \E r1 \in reports, r2 \in reports :
          /\ r2.report_id = lastOp.id
          /\ r1.user_id = r2.user_id
          /\ r1.transcript_id = r2.transcript_id
          /\ r1.analysis_date < r2.analysis_date

ReturnValue(call) == [ok |-> call.ok, id |-> call.id]

\* C18: a create that failed on a constraint returns a value other than the
\* one the same call returns on any other database error.
C18_ConflictDistinguished ==
    lastOp.caught = "IntegrityError"
        => ReturnValue(lastOp) # ReturnValue(Failed(lastOp.op, "Exception"))

\* C19: get_latest_report_for_user_and_transcript(u, t) returns None exactly
\* when no report of u on t is stored, and otherwise the one report of u on t
\* that no other report of u on t equals or passes in analysis date.
C19_LatestReport ==
    lastOp.op = "get_latest_report" =>
        LET rows == ReportsFor(lastOp.user_id, lastOp.transcript_id)
        IN /\ (lastOp.id = NullId) <=> (rows = {})
           /\ lastOp.ok <=> (rows # {})
           /\ rows # {} =>
                 \E r \in rows :
                    /\ r.report_id = lastOp.id
                    /\ \A q \in rows \ {r} : q.analysis_date < r.analysis_date

C19_Witness ==
    /\ lastOp.op = "get_latest_report"
    /\ lastOp.ok
    /\ \E r \in reports, q \in reports :
          /\ r.report_id = lastOp.id
          /\ q.user_id = r.user_id
          /\ q.transcript_id = r.transcript_id
          /\ q.analysis_date < r.analysis_date

(***************************************************************************)
(* Properties of user deletion (specification SpecCascade)                 *)
(***************************************************************************)
\* C16: once delete_user(u) has returned True, no analysis report and no
\* watchlist item of user u is stored.
C16_CascadeOnDelete ==
    (lastOp.op = "delete_user" /\ lastOp.ok)
        => /\ \A r \in reports : r.user_id # lastOp.user_id
           /\ \A w \in watchlist : w.user_id # lastOp.user_id

C16_Witness ==
    /\ lastOp.op = "delete_user"
    /\ lastOp.ok
    /\ watchlist = {}
    /\ \E r \in reports : r.report_id = 2 /\ r.user_id # lastOp.user_id
    /\ Cardinality(reports) = 1

(***************************************************************************)
(* Properties of the transcript table (specification SpecTranscripts)      *)
(***************************************************************************)
TranscriptKeyUnique ==
    \A t1 \in transcripts, t2 \in transcripts :
        (/\ t1.ticker_symbol = t2.ticker_symbol
         /\ t1.fiscal_year = t2.fiscal_year
         /\ t1.fiscal_quarter = t2.fiscal_quarter) => t1 = t2

AddTranscriptStep == lastOp'.op = "add_transcript" /\ now' = now

\* C15: the table never holds two transcripts of one (ticker, fiscal year,
\* fiscal quarter), and an add_transcript for a key already stored returns
\* None and leaves the table as it was.
C15_OneTranscriptPerPeriod ==
    /\ []TranscriptKeyUnique
    /\ [][(/\ AddTranscriptStep
           /\ \E t \in transcripts :
                 /\ t.ticker_symbol = lastOp'.ticker
                 /\ t.fiscal_year = lastOp'.year
                 /\ t.fiscal_quarter = lastOp'.quarter)
            => (~lastOp'.ok /\ lastOp'.id = NullId /\ transcripts' = transcripts)]_vars

C15_Witness ==
    /\ lastOp.op = "add_transcript"
    /\ lastOp.caught = "IntegrityError"
    /\ \E t \in transcripts :
          /\ t.ticker_symbol = lastOp.ticker
          /\ t.fiscal_year = lastOp.year
          /\ t.fiscal_quarter = lastOp.quarter
    /\ Cardinality(transcripts) = 1

(***************************************************************************)
(* Properties of the errors the remote clients report                      *)
(***************************************************************************)
\* C22 (specification SpecNinjas): the error that leaves _make_request is a
\* ValueError after an HTTP error status and after a decoded body that is
\* neither a list nor an object, and a RequestException after a connection
\* error or a timeout.
C22_RaisesAsDocumented ==
    (ninja.pc = "done" /\ ninja.requests = 1) =>
        /\ (\/ ninja.behaviour.kind = "http_error"
            \/ ninja.behaviour.kind = "ok" /\ ninja.behaviour.shape = "scalar")
              => /\ ninja.outcome.tag = "raise"
                 /\ IsInstance(ninja.outcome.value.type, "ValueError")
        /\ ninja.behaviour.kind \in {"conn_error", "connect_timeout", "read_timeout"}
              => /\ ninja.outcome.tag = "raise"
                 /\ IsInstance(ninja.outcome.value.type, "RequestException")

Parts(msg) == {msg[i] : i \in DOMAIN msg}

\* C23 (specification Spec): after a non-2xx answer, with a JSON body or not,
\* analyze_transcript of GeminiService returns a failure whose message holds
\* the remote status code and the remote body.
C23_HttpFailureCarriesStatusAndBody ==
    (calls["gemini"].pc = "done" /\ calls["gemini"].behaviour.kind = "http_error")
        => /\ IsFailure(calls["gemini"].outcome)
           /\ Num(calls["gemini"].behaviour.status) \in Parts(calls["gemini"].outcome.value.error)
           /\ Val(calls["gemini"].behaviour.body) \in Parts(calls["gemini"].outcome.value.error)

(***************************************************************************)
(* Properties of the store as a whole                                      *)
(***************************************************************************)
\* C21 (specification SpecManager): a stored transcript is immutable: every
\* step of every DataManager operation, a later add_transcript for the same
\* period included, leaves each stored row in the table with the same id, key,
\* text, speaker segments and fetch timestamp.
C21_StoredTranscriptImmutable ==
    [][\A t \in transcripts : t \in transcripts']_vars

\* a transcript stored at an earlier time, and a later add_transcript for its
\* period that offered another text and has returned None
C21_Witness ==
    \E t \in transcripts :
        /\ t.fetched_at < now
        /\ lastOp.op = "add_transcript"
        /\ lastOp.ticker = t.ticker_symbol
        /\ lastOp.year = t.fiscal_year
        /\ lastOp.quarter = t.fiscal_quarter
        /\ lastOp.caught = "IntegrityError"
        /\ \E u \in users, r \in reports, w \in watchlist, c \in companies :
              r.transcript_id = t.transcript_id

Tables == <<users, companies, transcripts, reports, watchlist>>

Creates == {"create_user", "add_company", "add_transcript",
            "create_analysis_report", "add_stock_to_watchlist"}

\* a step of one of the five create operations (the clock stands still)
CreateStep == lastOp'.op \in Creates /\ now' = now

\* whether the arguments of a create violate a constraint of the table as it
\* stands, for the two creates whose arguments lastOp holds in full
Violates(call) ==
    CASE call.op = "add_stock_to_watchlist" ->
            WatchlistIntegrityError(call.user_id, call.ticker)
      [] call.op = "create_analysis_report" ->
            ReportIntegrityError(call.user_id, call.transcript_id)
      [] OTHER -> call.caught = "IntegrityError"

\* C24 (specification SpecManager): a create that returns None leaves the five
\* tables as they were and the session usable; and a create fails only for a
\* reason of its own, a constraint its arguments violate or a database error
\* during its own commit, so that a valid create after a failed one succeeds.
C24_FailedCreateLeavesStore ==
    /\ []((lastOp.op \in Creates /\ ~lastOp.ok) => session = "active")
    /\ [][CreateStep =>
            /\ ~lastOp'.ok => Tables' = Tables
            /\ (session = "active" /\ ~lastOp'.fault /\ ~Violates(lastOp'))
                  => (lastOp'.ok /\ Tables' # Tables)]_vars

\* a create has failed on a constraint while all five tables hold rows
C24_Witness ==
    /\ lastOp.op \in Creates
    /\ ~lastOp.ok
    /\ lastOp.caught = "IntegrityError"
    /\ \A i \in 1..5 : Tables[i] # {}

(***************************************************************************)
(* Properties of the watchlist (specification SpecWatchlist)               *)
(***************************************************************************)
WatchlistItemUnique ==
    \A w1 \in watchlist, w2 \in watchlist :
        (w1.user_id = w2.user_id /\ w1.ticker_symbol = w2.ticker_symbol) => w1 = w2

\* this step is the call op(user_id, ticker) and it succeeded
Succeeded(op, user_id, ticker) ==
    /\ lastOp'.op = op
    /\ lastOp'.user_id = user_id
    /\ lastOp'.ticker = ticker
    /\ lastOp'.ok

\* C25 (specification SpecWatchlist): a watchlist holds each ticker at most
\* once; is_stock_in_watchlist(u, t) returns what the history of (u, t) says:
\* membership starts false, becomes true with a successful add of (u, t), false
\* with a successful remove of (u, t), and no other step changes it; an add of
\* a stock already present returns None and a remove of a stock not present
\* returns False, and both leave the table as it was.
C25_WatchlistFollowsHistory ==
    /\ [](/\ WatchlistItemUnique
          /\ lastOp.op = "is_stock_in_watchlist"
                => lastOp.ok = InWatchlist(lastOp.user_id, lastOp.ticker))
    /\ [][/\ \A u \in UserIds, t \in WatchTickers :
                InWatchlist(u, t)' =
                    IF Succeeded("add_stock_to_watchlist", u, t) THEN TRUE
                    ELSE IF Succeeded("remove_stock_from_watchlist", u, t) THEN FALSE
                    ELSE InWatchlist(u, t)
          /\ (/\ lastOp'.op = "add_stock_to_watchlist"
              /\ InWatchlist(lastOp'.user_id, lastOp'.ticker))
                => (~lastOp'.ok /\ lastOp'.id = NullId /\ watchlist' = watchlist)
          /\ (/\ lastOp'.op = "remove_stock_from_watchlist"
              /\ ~InWatchlist(lastOp'.user_id, lastOp'.ticker))
                => (~lastOp'.ok /\ watchlist' = watchlist)]_vars

\* the query has answered True for the stock a user added second
C25_Witness ==
    /\ lastOp.op = "is_stock_in_watchlist"
    /\ lastOp.ok
    /\ \E w1 \in watchlist, w2 \in watchlist :
          /\ w1.user_id = lastOp.user_id
          /\ w2.user_id = lastOp.user_id
          /\ w1.ticker_symbol # w2.ticker_symbol
          /\ w1.watchlist_item_id = 2
          /\ w1.ticker_symbol = lastOp.ticker

====
